---- MODULE Spec2Model ----
(***************************************************************************)
(* A model of the unicode-truncate crate (src/src/lib.rs): truncation and  *)
(* padding of a str by displayed width.                                    *)
(*                                                                         *)
(* A str is modelled as the sequence of its extended grapheme clusters,    *)
(* and a grapheme as the sequence of its code points.  The code points are *)
(*   "zwsp"  U+200B ZERO WIDTH SPACE           3 bytes, width 0, Control   *)
(*   "a"     U+0061 LATIN SMALL LETTER A       1 byte,  width 1            *)
(*   "sp"    U+0020 SPACE (unicode_pad)        1 byte,  width 1            *)
(*   "ni"    U+4F60 (CJK ideograph)            3 bytes, width 2            *)
(*   "ka"    U+0915 DEVANAGARI LETTER KA       3 bytes, width 1            *)
(*   "h"     U+0903 DEVANAGARI SIGN VISARGA    3 bytes, width 1,           *)
(*           a spacing mark: it extends the cluster of the code point      *)
(*           before it, so "ka" followed by n - 1 "h" is one grapheme of   *)
(*           width n (rule GB9a of UAX #29, extended clusters).            *)
(* The width of a str or of a grapheme is the sum of the widths of its     *)
(* code points; no sequence of these code points is measured otherwise by  *)
(* unicode-width.  Emoji sequences joined by U+200D are not among the      *)
(* inputs: their width depends on the version of unicode-width the crate   *)
(* is built with (the sum of the emoji for the one that the test           *)
(* family_stays_together was written for, one emoji for the later ones).   *)
(* Byte indices are real byte offsets into the UTF-8 encoding.  Sums of    *)
(* widths stay far below usize::MAX, so checked_add never yields None.     *)
(* A build with debug assertions checks the width of every slice it        *)
(* returns; a build without does not.                                      *)
(***************************************************************************)
EXTENDS Naturals, Integers, Sequences, FiniteSets

\* Bounds of the model.
MaxLen == 3
MaxAffix == 1
LongMid == 6
MaxWidth == 12
ClusterMid == 8
ClusterWide == 12

\* UnicodeWidthChar::width of one code point.
CharWidth(c) ==
  CASE c = "zwsp" -> 0
    [] c = "a"    -> 1
    [] c = "sp"   -> 1
    [] c = "ni"   -> 2
    [] c = "ka"   -> 1
    [] c = "h"    -> 1

\* char::len_utf8 of one code point.
CharLen(c) ==
  CASE c = "zwsp" -> 3
    [] c = "a"    -> 1
    [] c = "sp"   -> 1
    [] c = "ni"   -> 3
    [] c = "ka"   -> 3
    [] c = "h"    -> 3

\* The graphemes of one code point: of width 0, 1 and 2.
NarrowGraphemes == {<<"zwsp">>, <<"a">>, <<"ni">>}

\* The grapheme of width n made of "ka" and n - 1 spacing marks.
Cluster(n) == [i \in 1..n |-> IF i = 1 THEN "ka" ELSE "h"]

\* The graphemes of the inputs.
Graphemes == NarrowGraphemes \cup {Cluster(ClusterMid), Cluster(ClusterWide)}

\* The grapheme ' '.
Space == <<"sp">>

Alignment == {"Left", "Center", "Right"}

RECURSIVE CharsWidth(_, _)
\* The sum of the widths of the first n code points of cs.
CharsWidth(cs, n) ==
  IF n = 0 THEN 0 ELSE CharWidth(cs[n]) + CharsWidth(cs, n - 1)

RECURSIVE CharsLen(_, _)
\* The sum of the byte lengths of the first n code points of cs.
CharsLen(cs, n) ==
  IF n = 0 THEN 0 ELSE CharLen(cs[n]) + CharsLen(cs, n - 1)

\* UnicodeWidthStr::width of one grapheme.
GraphemeWidth(g) == CharsWidth(g, Len(g))

\* str::len of one grapheme: its UTF-8 byte length.
GraphemeLen(g) == CharsLen(g, Len(g))

RECURSIVE StrWidth(_)
\* UnicodeWidthStr::width of a str.
StrWidth(s) ==
  IF s = <<>> THEN 0 ELSE GraphemeWidth(Head(s)) + StrWidth(Tail(s))

RECURSIVE StrLen(_)
\* str::len: the byte length of a str.
StrLen(s) ==
  IF s = <<>> THEN 0 ELSE GraphemeLen(Head(s)) + StrLen(Tail(s))

\* The byte index at which the i-th grapheme starts (i = Len(s)+1: the end).
ByteIndex(s, i) == StrLen(SubSeq(s, 1, i - 1))

RECURSIVE GraphemeIndicesFrom(_, _, _)
\* The entries of GraphemeIndices from the i-th grapheme on, which starts
\* at byte_index.
GraphemeIndicesFrom(s, i, byte_index) ==
  IF i > Len(s) THEN <<>>
  ELSE <<<<byte_index, GraphemeWidth(s[i])>>>>
         \o GraphemeIndicesFrom(s, i + 1, byte_index + GraphemeLen(s[i]))

\* str::grapheme_indices(true) mapped to (byte index, grapheme width).
GraphemeIndices(s) == GraphemeIndicesFrom(s, 1, 0)

RECURSIVE Chars(_)
\* str::chars: the code points of a str.
Chars(s) == IF s = <<>> THEN <<>> ELSE Head(s) \o Chars(Tail(s))

RECURSIVE CharBoundary(_, _, _, _)
\* str::is_char_boundary(index): the position i of the code point of cs that
\* starts at the byte index (Len(cs) + 1: the end), 0 when there is none,
\* searched from position i, which starts at byte index at.
CharBoundary(cs, i, at, index) ==
  IF at = index THEN i
  ELSE IF at > index \/ i > Len(cs) THEN 0
  ELSE CharBoundary(cs, i + 1, at + CharLen(cs[i]), index)

RECURSIVE ClusterEnd(_, _)
\* The position of the last code point of the grapheme that holds the
\* k-th one, which is not a control: the spacing marks that follow stay
\* with it (GB9a).
ClusterEnd(cs, k) ==
  IF k < Len(cs) /\ cs[k + 1] = "h" THEN ClusterEnd(cs, k + 1) ELSE k

RECURSIVE GraphemeClusters(_, _)
\* str::graphemes(true) of the code points of cs from position i on: a
\* control is a grapheme of its own (GB4, GB5).
GraphemeClusters(cs, i) ==
  IF i > Len(cs) THEN <<>>
  ELSE LET e == IF cs[i] = "zwsp" THEN i ELSE ClusterEnd(cs, i)
       IN <<SubSeq(cs, i, e)>> \o GraphemeClusters(cs, e + 1)

\* Option values.
None == [some |-> FALSE, val |-> <<>>]
Some(v) == [some |-> TRUE, val |-> v]

\* str::get(from..to): None when the range is decreasing, out of bounds or
\* not on char boundaries, else the sub-slice.
Get(s, from, to) ==
  LET cs == Chars(s)
      b == CharBoundary(cs, 1, 0, from)
      e == CharBoundary(cs, 1, 0, to)
  IN IF from > to \/ b = 0 \/ e = 0
       THEN None
       ELSE Some(GraphemeClusters(SubSeq(cs, b, e - 1), 1))

\* What a truncation returns: the pair (slice, width), or a panic.
Pair(slice, width) == [ok |-> TRUE, slice |-> slice, width |-> width]
Panic == [ok |-> FALSE, slice |-> <<>>, width |-> 0]

\* cfg!(debug_assertions): whether the build keeps its debug assertions.
VARIABLE debug_assertions

\* debug_assert_eq!(result.width(), width); (result, width).
Returned(slice, width) ==
  IF debug_assertions /\ StrWidth(slice) # width
    THEN Panic
    ELSE Pair(slice, width)

\* take_while with current_width < max_width.
TakeWhileStrict(es, max_width) ==
  LET n == IF \A i \in 1..Len(es) : es[i][2] < max_width
             THEN Len(es)
             ELSE (CHOOSE i \in 1..Len(es) :
                     /\ es[i][2] >= max_width
                     /\ \A j \in 1..(i - 1) : es[j][2] < max_width) - 1
  IN SubSeq(es, 1, n)

\* Iterator::take_while(|&(_, current_width)| current_width <= max_width).
TakeWhile(es, max_width) ==
  LET n == IF \A i \in 1..Len(es) : es[i][2] <= max_width
             THEN Len(es)
             ELSE (CHOOSE i \in 1..Len(es) :
                     /\ es[i][2] > max_width
                     /\ \A j \in 1..(i - 1) : es[j][2] <= max_width) - 1
  IN SubSeq(es, 1, n)

\* Iterator::last().unwrap_or(default).
LastOr(es, default) == IF es = <<>> THEN default ELSE es[Len(es)]

\* Iterator::skip_while(|&(_, removed)| removed < less_than_half).
SkipWhile(es, less_than_half) ==
  LET n == IF \A i \in 1..Len(es) : es[i][2] < less_than_half
             THEN Len(es)
             ELSE (CHOOSE i \in 1..Len(es) :
                     /\ es[i][2] >= less_than_half
                     /\ \A j \in 1..(i - 1) : es[j][2] < less_than_half) - 1
  IN SubSeq(es, n + 1, Len(es))

RECURSIVE ScanBefore(_, _, _)
\* Iterator::scan(0, ..) from the i-th entry on, sum being its state: the
\* closure yields the sum before it adds the width of the entry.
ScanBefore(es, i, sum) ==
  IF i > Len(es) THEN <<>>
  ELSE <<<<es[i][1], sum>>>> \o ScanBefore(es, i + 1, sum + es[i][2])

RECURSIVE ScanIncluding(_, _, _)
\* Iterator::scan(0, ..) from the i-th entry on, sum being its state: the
\* closure adds the width of the entry and yields the sum.
ScanIncluding(es, i, sum) ==
  IF i > Len(es) THEN <<>>
  ELSE <<<<es[i][1], sum + es[i][2]>>>>
         \o ScanIncluding(es, i + 1, sum + es[i][2])

(***************************************************************************)
(* unicode_truncate: remove the end characters.                            *)
(***************************************************************************)
\* grapheme_indices chained with the position past the last char.
TruncateEntries(s) == Append(GraphemeIndices(s), <<StrLen(s), 0>>)

\* The scan with the width of the grapheme at the index added too early.
ScanWidthBeforeOffByOne(es) == ScanIncluding(es, 1, 0)

\* The scan of unicode_truncate: byte index and the width up to the index.
ScanWidthBefore(es) == ScanBefore(es, 1, 0)

UnicodeTruncate(s, max_width) ==
  LET p == LastOr(TakeWhile(ScanWidthBefore(TruncateEntries(s)), max_width),
                  <<0, 0>>)
      r == Get(s, 0, p[1])
  IN IF r.some THEN Returned(r.val, p[2]) ELSE Panic

(***************************************************************************)
(* unicode_truncate_start: remove the start characters.                    *)
(***************************************************************************)
\* Iterator::rev.
Rev(es) == [i \in 1..Len(es) |-> es[Len(es) + 1 - i]]

\* The scan of unicode_truncate_start and of from_end: byte index and the
\* width from the end to the index, the grapheme at the index included.
ScanWidthIncluding(es) == ScanIncluding(es, 1, 0)

UnicodeTruncateStart(s, max_width) ==
  LET p == LastOr(TakeWhile(ScanWidthIncluding(Rev(GraphemeIndices(s))),
                            max_width),
                  <<StrLen(s), 0>>)
      r == Get(s, p[1], StrLen(s))
  IN IF r.some THEN Returned(r.val, p[2]) ELSE Panic

(***************************************************************************)
(* unicode_truncate_centered: remove characters at both start and end.     *)
(***************************************************************************)
\* usize::saturating_sub.
SaturatingSub(a, b) == IF a >= b THEN a - b ELSE 0

\* The assumed maximum width of one grapheme.
GraphemeMaxWidth == 10

\* less_than_half without the margin of one grapheme.
LessThanHalfNoMargin(min_removal_width) == min_removal_width \div 2

\* less_than_half: around the half of the width to remove.
LessThanHalf(min_removal_width) ==
  SaturatingSub(min_removal_width, GraphemeMaxWidth) \div 2

\* The scan of from_start: byte index and the width from the start to the
\* index, the grapheme at the index not included.
FromStartScan(s) == ScanWidthBefore(GraphemeIndices(s))

\* from_start, fast forwarded to around the half.
FromStart(s, less_than_half) == SkipWhile(FromStartScan(s), less_than_half)

\* from_end, fast forwarded to around the half.
FromEnd(s, less_than_half) ==
  SkipWhile(ScanWidthIncluding(Rev(GraphemeIndices(s))), less_than_half)

\* The state of the merge: the positions of the two iterators and the
\* accumulator of the scan.
MergeInit ==
  [l |-> 1, r |-> 1,
   start_removed |-> 0, end_removed |-> 0,
   start_index |-> 0, end_index |-> 0]

\* merge_join_by with the closure start_removed <= end_removed: a tie takes
\* the left element.
MergeJoinByTieLeft(fs, fe, st) ==
  IF st.l <= Len(fs) /\ st.r <= Len(fe)
    THEN IF fs[st.l][2] <= fe[st.r][2] THEN "Left" ELSE "Right"
    ELSE IF st.l <= Len(fs) THEN "Left"
    ELSE IF st.r <= Len(fe) THEN "Right"
    ELSE "None"

\* A join that takes every element of the left before any of the right.
MergeJoinByLeftFirst(fs, fe, st) ==
  IF st.l <= Len(fs) THEN "Left"
  ELSE IF st.r <= Len(fe) THEN "Right"
  ELSE "None"

\* merge_join_by: the side the next element is taken from. The closure
\* returns start_removed < end_removed; true takes the left element.
MergeJoinBy(fs, fe, st) ==
  IF st.l <= Len(fs) /\ st.r <= Len(fe)
    THEN IF fs[st.l][2] < fe[st.r][2] THEN "Left" ELSE "Right"
    ELSE IF st.l <= Len(fs) THEN "Left"
    ELSE IF st.r <= Len(fe) THEN "Right"
    ELSE "None"

\* One element through merge_join_by and the closure of the scan.
MergeStep(fs, fe, st) ==
  IF MergeJoinBy(fs, fe, st) = "Left"
    THEN [st EXCEPT !.l = @ + 1,
                    !.start_index = fs[st.l][1],
                    !.start_removed = fs[st.l][2]]
    ELSE [st EXCEPT !.r = @ + 1,
                    !.end_index = fe[st.r][1],
                    !.end_removed = fe[st.r][2]]

\* total_removed of the scan.
TotalRemoved(st) == st.start_removed + st.end_removed

RECURSIVE FindRemoval(_, _, _, _, _)
\* find(removed >= min_removal_width).unwrap_or((0, 0, original_width)).
FindRemoval(fs, fe, st, min_removal_width, original_width) ==
  IF MergeJoinBy(fs, fe, st) = "None"
    THEN <<0, 0, original_width>>
    ELSE LET nx == MergeStep(fs, fe, st)
         IN IF TotalRemoved(nx) >= min_removal_width
              THEN <<nx.start_index, nx.end_index, TotalRemoved(nx)>>
              ELSE FindRemoval(fs, fe, nx, min_removal_width, original_width)

\* The end of unicode_truncate_centered: slice the input and subtract.
CenteredSlice(s, start_index, end_index, removed_width) ==
  LET r == Get(s, start_index, end_index)
      original_width == StrWidth(s)
  IN IF ~r.some THEN Panic
     ELSE IF removed_width > original_width THEN Panic
     ELSE Returned(r.val, original_width - removed_width)

UnicodeTruncateCentered(s, max_width) ==
  IF max_width = 0 THEN Pair(<<>>, 0)
  ELSE IF StrWidth(s) <= max_width THEN Pair(s, StrWidth(s))
  ELSE LET min_removal_width == StrWidth(s) - max_width
           less_than_half == LessThanHalf(min_removal_width)
           f == FindRemoval(FromStart(s, less_than_half),
                            FromEnd(s, less_than_half),
                            MergeInit, min_removal_width, StrWidth(s))
       IN CenteredSlice(s, f[1], f[2], f[3])

(***************************************************************************)
(* unicode_truncate_aligned and unicode_pad.                               *)
(***************************************************************************)
UnicodeTruncateAligned(s, max_width, align) ==
  CASE align = "Left"   -> UnicodeTruncate(s, max_width)
    [] align = "Center" -> UnicodeTruncateCentered(s, max_width)
    [] align = "Right"  -> UnicodeTruncateStart(s, max_width)

\* The split that drops the remainder of an odd difference.
PadSplitNoRemainder(diff, align) ==
  CASE align = "Left"   -> <<0, diff>>
    [] align = "Right"  -> <<diff, 0>>
    [] align = "Center" -> <<diff \div 2, diff \div 2>>

\* (left_pad, right_pad) of unicode_pad.
PadSplit(diff, align) ==
  CASE align = "Left"   -> <<0, diff>>
    [] align = "Right"  -> <<diff, 0>>
    [] align = "Center" -> <<diff \div 2, SaturatingSub(diff, diff \div 2)>>

\* n pushes of ' '.
Spaces(n) == [i \in 1..n |-> Space]

\* unicode_pad truncating by unicode_truncate_aligned.
UnicodePadAligned(s, target_width, align, truncate) ==
  IF ~truncate /\ StrWidth(s) >= target_width THEN s
  ELSE LET t == UnicodeTruncateAligned(s, target_width, align)
       IN IF t.width = target_width THEN t.slice
          ELSE LET diff == SaturatingSub(target_width, t.width)
                   pads == PadSplit(diff, align)
               IN Spaces(pads[1]) \o t.slice \o Spaces(pads[2])

UnicodePad(s, target_width, align, truncate) ==
  IF ~truncate /\ StrWidth(s) >= target_width THEN s
  ELSE LET t == UnicodeTruncate(s, target_width)
       IN IF t.width = target_width THEN t.slice
          ELSE LET diff == SaturatingSub(target_width, t.width)
                   pads == PadSplit(diff, align)
               IN Spaces(pads[1]) \o t.slice \o Spaces(pads[2])

(***************************************************************************)
(* The calls. One call is made on an input; unicode_truncate_centered      *)
(* runs its merge one element at a time.                                   *)
(***************************************************************************)
VARIABLES input, max_width, op, pc, align, truncate, merge, found, result,
          padded

vars == <<debug_assertions, input, max_width, op, pc, align, truncate, merge,
          found, result, padded>>

\* n graphemes of width 2.
Wide(n) == [i \in 1..n |-> <<"ni">>]

ShortTexts == UNION {[1..n -> Graphemes] : n \in 0..MaxLen}
Affixes == UNION {[1..n -> NarrowGraphemes] : n \in 0..MaxAffix}
LongTexts == {p \o Wide(LongMid) \o q : p \in Affixes, q \in Affixes}
Texts == ShortTexts \cup LongTexts

Init ==
  /\ debug_assertions \in BOOLEAN
  /\ input \in Texts
  /\ max_width \in 0..MaxWidth
  /\ op = "none"
  /\ pc = "ready"
  /\ align = "Left"
  /\ truncate = FALSE
  /\ merge = MergeInit
  /\ found = <<0, 0, 0>>
  /\ result = Pair(<<>>, 0)
  /\ padded = <<>>

Truncate ==
  /\ pc = "ready"
  /\ op' = "truncate"
  /\ result' = UnicodeTruncate(input, max_width)
  /\ pc' = "done"
  /\ UNCHANGED <<debug_assertions, input, max_width, align, truncate, merge,
               found, padded>>

TruncateStart ==
  /\ pc = "ready"
  /\ op' = "truncate_start"
  /\ result' = UnicodeTruncateStart(input, max_width)
  /\ pc' = "done"
  /\ UNCHANGED <<debug_assertions, input, max_width, align, truncate, merge,
               found, padded>>

\* The width that unicode_truncate_centered has to remove.
MinRemovalWidth == StrWidth(input) - max_width

\* The entry of unicode_truncate_centered: the two early returns, or the
\* start of the merge.
CenteredCall ==
  /\ pc = "ready"
  /\ op' = "truncate_centered"
  /\ IF max_width = 0
       THEN /\ result' = Pair(<<>>, 0)
            /\ pc' = "done"
       ELSE IF StrWidth(input) <= max_width
         THEN /\ result' = Pair(input, StrWidth(input))
              /\ pc' = "done"
         ELSE /\ result' = result
              /\ pc' = "merge"
  /\ UNCHANGED <<debug_assertions, input, max_width, align, truncate, merge,
               found, padded>>

\* One element of the merge: taken, scanned and tested by find; when both
\* iterators are exhausted the default is taken.
CenteredMerge ==
  /\ pc = "merge"
  /\ LET lth == LessThanHalf(MinRemovalWidth)
         fs == FromStart(input, lth)
         fe == FromEnd(input, lth)
     IN IF MergeJoinBy(fs, fe, merge) = "None"
          THEN /\ found' = <<0, 0, StrWidth(input)>>
               /\ merge' = merge
               /\ pc' = "slice"
          ELSE LET nx == MergeStep(fs, fe, merge)
               IN /\ merge' = nx
                  /\ IF TotalRemoved(nx) >= MinRemovalWidth
                       THEN /\ found' = <<nx.start_index, nx.end_index,
                                          TotalRemoved(nx)>>
                            /\ pc' = "slice"
                       ELSE /\ found' = found
                            /\ pc' = "merge"
  /\ UNCHANGED <<debug_assertions, input, max_width, op, align, truncate,
               result, padded>>

\* The slicing of the input by the indices found.
CenteredReturn ==
  /\ pc = "slice"
  /\ result' = CenteredSlice(input, found[1], found[2], found[3])
  /\ pc' = "done"
  /\ UNCHANGED <<debug_assertions, input, max_width, op, align, truncate, merge,
               found, padded>>

TruncateAligned ==
  /\ pc = "ready"
  /\ \E a \in Alignment :
       /\ align' = a
       /\ result' = UnicodeTruncateAligned(input, max_width, a)
  /\ op' = "truncate_aligned"
  /\ pc' = "done"
  /\ UNCHANGED <<debug_assertions, input, max_width, truncate, merge,
               found, padded>>

Pad ==
  /\ pc = "ready"
  /\ \E a \in Alignment, t \in BOOLEAN :
       /\ align' = a
       /\ truncate' = t
       /\ padded' = UnicodePad(input, max_width, a, t)
  /\ op' = "pad"
  /\ pc' = "done"
  /\ UNCHANGED <<debug_assertions, input, max_width, merge, found, result>>

Next ==
  \/ Truncate
  \/ TruncateStart
  \/ CenteredCall
  \/ CenteredMerge
  \/ CenteredReturn
  \/ TruncateAligned
  \/ Pad

Spec == Init /\ [][Next]_vars

(***************************************************************************)
(* Properties.                                                             *)
(***************************************************************************)
\* The call of operation o has returned (or panicked).
Done(o) == pc = "done" /\ op = o

\* The three truncations.
Truncations == {"truncate", "truncate_start", "truncate_centered"}

\* The first k graphemes, and the last k graphemes, of s.
Prefix(s, k) == SubSeq(s, 1, k)
Suffix(s, k) == SubSeq(s, Len(s) - k + 1, Len(s))

\* The number of zero-width graphemes s starts with, and ends with.
LeadingZeroWidth(s) ==
  CHOOSE k \in 0..Len(s) :
    /\ \A i \in 1..k : GraphemeWidth(s[i]) = 0
    /\ k < Len(s) => GraphemeWidth(s[k + 1]) # 0
TrailingZeroWidth(s) ==
  CHOOSE k \in 0..Len(s) :
    /\ \A i \in (Len(s) - k + 1)..Len(s) : GraphemeWidth(s[i]) = 0
    /\ k < Len(s) => GraphemeWidth(s[Len(s) - k]) # 0

\* C1 (as claimed): every truncation returns a pair (slice, width) whose
\* width is the sum of the widths of the graphemes of the slice and is at
\* most max_width.
WidthBound ==
  pc = "done" /\ op \in Truncations
    => /\ result.ok
       /\ result.width = StrWidth(result.slice)
       /\ result.width <= max_width

\* C2 (as claimed): the indices found by the merge of
\* unicode_truncate_centered satisfy start_index <= end_index on grapheme
\* boundaries, so that slicing the input never fails.
CenteredTotal ==
  /\ pc = "slice"
       => /\ found[1] <= found[2]
          /\ Get(input, found[1], found[2]).some
  /\ Done("truncate_centered") => result.ok

\* C3: unicode_truncate returns the longest prefix of the input, on a
\* grapheme boundary, whose width is at most max_width, and
\* unicode_truncate_start the longest such suffix.
LongestFit ==
  /\ Done("truncate")
       => /\ result.ok
          /\ result.slice = Prefix(input, Len(result.slice))
          /\ StrWidth(result.slice) <= max_width
          /\ \A k \in (Len(result.slice) + 1)..Len(input) :
               StrWidth(Prefix(input, k)) > max_width
  /\ Done("truncate_start")
       => /\ result.ok
          /\ result.slice = Suffix(input, Len(result.slice))
          /\ StrWidth(result.slice) <= max_width
          /\ \A k \in (Len(result.slice) + 1)..Len(input) :
               StrWidth(Suffix(input, k)) > max_width

\* C3 happens: unicode_truncate has cut right after a zero-width grapheme,
\* which it kept.
LongestFitWitness ==
  /\ Done("truncate")
  /\ 0 < Len(result.slice)
  /\ Len(result.slice) < Len(input)
  /\ GraphemeWidth(result.slice[Len(result.slice)]) = 0
  /\ result.width = max_width

\* C4 (as claimed): an input whose width is at most max_width is returned
\* whole by each of the three truncations, with its width.
IdentityLaw ==
  pc = "done" /\ op \in Truncations /\ StrWidth(input) <= max_width
    => result = Pair(input, StrWidth(input))

PaddingExactness ==
  Done("pad") /\ truncate => StrWidth(padded) = max_width

\* C6 happens: a centered pad has cut an input that is too wide at a place
\* that leaves a column to fill, and filled it.
PaddingExactnessWitness ==
  /\ Done("pad")
  /\ truncate
  /\ align = "Center"
  /\ StrWidth(input) > max_width
  /\ padded # <<>>
  /\ padded[1] # Space
  /\ padded[Len(padded)] = Space

\* The number of spaces on the left and on the right for a difference.
SplitLeft(diff, a) ==
  IF a = "Left" THEN 0 ELSE IF a = "Right" THEN diff ELSE diff \div 2
SplitRight(diff, a) == diff - SplitLeft(diff, a)

\* C7 (as claimed): unicode_pad with truncate = true returns the slice of
\* the truncation of its alignment (Left trims the end, Right the start,
\* Center both ends) between the spaces of its alignment.
PadTruncatesAligned ==
  Done("pad") /\ truncate
    => LET t == UnicodeTruncateAligned(input, max_width, align)
           diff == max_width - t.width
       IN /\ t.ok
          /\ padded = Spaces(SplitLeft(diff, align)) \o t.slice
                        \o Spaces(SplitRight(diff, align))

\* The length of the longest prefix of s whose width is at most w.
LongestPrefix(s, w) ==
  CHOOSE k \in 0..Len(s) :
    /\ StrWidth(Prefix(s, k)) <= w
    /\ \A j \in (k + 1)..Len(s) : StrWidth(Prefix(s, j)) > w

\* C7 (amended): unicode_pad with truncate = true trims the end whatever
\* the alignment: it returns the longest prefix of the input whose width is
\* at most target_width between the spaces of its alignment.
PadTrimsEnd ==
  Done("pad") /\ truncate
    => LET slice == Prefix(input, LongestPrefix(input, max_width))
           diff == max_width - StrWidth(slice)
       IN padded = Spaces(SplitLeft(diff, align)) \o slice
                     \o Spaces(SplitRight(diff, align))

\* C7 happens: a right-aligned pad has cut an input that is too wide and
\* put a space before what it kept.
PadTrimsEndWitness ==
  /\ Done("pad")
  /\ truncate
  /\ align = "Right"
  /\ StrWidth(input) > max_width
  /\ Len(padded) > 1
  /\ padded[1] = Space
  /\ padded[Len(padded)] # Space

\* C8 (as claimed): when unicode_truncate_start removes graphemes from the
\* start, the slice it returns does not begin with a zero-width grapheme.
StartDropsLeadingZeroWidth ==
  /\ Done("truncate_start")
  /\ result.ok
  /\ result.slice # <<>>
  /\ Len(result.slice) < Len(input)
  => GraphemeWidth(result.slice[1]) # 0

\* The grapheme that starts at a byte index (Len(s) + 1 for the end).
GraphemeAt(s, byte_index) ==
  CHOOSE i \in 1..(Len(s) + 1) : ByteIndex(s, i) = byte_index

\* unicode_truncate_centered has cut the input by its merge and returned a
\* slice.
CenteredCut ==
  /\ Done("truncate_centered")
  /\ 0 < max_width
  /\ max_width < StrWidth(input)
  /\ result.ok

\* C9 (as claimed): where unicode_truncate_centered cuts, a slice that lost
\* graphemes at the start does not begin with a zero-width grapheme, and
\* the first grapheme removed after the slice is not zero-width.
CenteredZeroWidthPolicy ==
  CenteredCut /\ result.slice # <<>>
    => LET b == GraphemeAt(input, found[1])
           e == GraphemeAt(input, found[2])
       IN /\ b > 1 => GraphemeWidth(input[b]) # 0
          /\ e <= Len(input) => GraphemeWidth(input[e]) # 0

\* C10 (as claimed): where unicode_truncate_centered cuts, adding the
\* removed grapheme next to the slice on the left, or the one on the right,
\* makes the width exceed max_width (when that grapheme has a width).
CenteredLongest ==
  CenteredCut
    => LET b == GraphemeAt(input, found[1])
           e == GraphemeAt(input, found[2])
       IN /\ b > 1 /\ GraphemeWidth(input[b - 1]) # 0
               => result.width + GraphemeWidth(input[b - 1]) > max_width
          /\ e <= Len(input) /\ GraphemeWidth(input[e]) # 0
               => result.width + GraphemeWidth(input[e]) > max_width

\* The two iterators that the merge of the call in progress joins.
MergeFromStart == FromStart(input, LessThanHalf(MinRemovalWidth))
MergeFromEnd == FromEnd(input, LessThanHalf(MinRemovalWidth))

\* A step of the merge takes an element of from_start (advances the start
\* side), or an element of from_end (advances the end side).
StartAdvances == pc = "merge" /\ merge'.l = merge.l + 1
EndAdvances == pc = "merge" /\ merge'.r = merge.r + 1

\* A step of the merge moves the start cut forward.
StartCutMoves == pc = "merge" /\ merge'.start_index > merge.start_index

\* C11 (as claimed): at every step of the merge the side advanced is the one
\* that has removed less width so far, the end side when the two widths
\* removed so far are equal; the start cut never moves forward while
\* start_removed >= end_removed.
AdvanceByRemovedSoFar ==
  [][/\ StartCutMoves => merge.start_removed < merge.end_removed
     /\ EndAdvances => merge.end_removed <= merge.start_removed]_vars

\* C11 (amended): at every step of the merge exactly one side is advanced;
\* while both sides have a next element, it is the side whose next element
\* removes less width, the end side when the two next elements remove the
\* same width; the start cut never moves to a point whose removed width is
\* at least the removed width of the next element of the end side.
AdvanceByNextRemoved ==
  [][pc = "merge" =>
       LET fs == MergeFromStart
           fe == MergeFromEnd
       IN /\ StartAdvances # EndAdvances
          /\ merge.l <= Len(fs) /\ merge.r <= Len(fe)
               => /\ StartAdvances <=> fs[merge.l][2] < fe[merge.r][2]
                  /\ StartAdvances => merge'.start_removed < fe[merge.r][2]
                  /\ EndAdvances => merge'.end_removed <= fs[merge.l][2]
          /\ merge.l > Len(fs) => EndAdvances]_vars

\* C11 happens: both sides have advanced and their next elements remove the
\* same width, so the tie is about to be broken.
AdvanceWitness ==
  /\ pc = "merge"
  /\ merge.l > 1
  /\ merge.r > 1
  /\ merge.l <= Len(MergeFromStart)
  /\ merge.r <= Len(MergeFromEnd)
  /\ MergeFromStart[merge.l][2] = MergeFromEnd[merge.r][2]

\* unicode_truncate_centered with the same merge and nothing skipped: the
\* two scans are joined from their first elements.
CenteredNoSkip(s, w) ==
  IF w = 0 THEN Pair(<<>>, 0)
  ELSE IF StrWidth(s) <= w THEN Pair(s, StrWidth(s))
  ELSE LET f == FindRemoval(FromStartScan(s),
                            ScanWidthIncluding(Rev(GraphemeIndices(s))),
                            MergeInit, StrWidth(s) - w, StrWidth(s))
       IN CenteredSlice(s, f[1], f[2], f[3])

\* C12 (as claimed): for every input, unicode_truncate_centered, which
\* skips the elements of both scans whose removed width is below
\* less_than_half, returns what the same merge returns when nothing is
\* skipped.
FastForwardEquivalent ==
  Done("truncate_centered") => result = CenteredNoSkip(input, max_width)

\* No grapheme of the input is wider than less_than_half allows for.
WithinMargin ==
  \A i \in 1..Len(input) : GraphemeWidth(input[i]) <= GraphemeMaxWidth

\* C12 (amended): for every input whose graphemes are at most 10 columns
\* wide, unicode_truncate_centered returns what the same merge returns when
\* nothing is skipped.
FastForwardEquivalentWithinMargin ==
  Done("truncate_centered") /\ WithinMargin
    => result = CenteredNoSkip(input, max_width)

\* C12 happens: unicode_truncate_centered has skipped elements of both scans
\* and returned a slice that is not empty.
FastForwardWitness ==
  /\ Done("truncate_centered")
  /\ WithinMargin
  /\ LessThanHalf(MinRemovalWidth) > 0
  /\ Len(MergeFromStart) < Len(input)
  /\ Len(MergeFromEnd) < Len(input)
  /\ result.ok
  /\ result.slice # <<>>

\* The maximum width of a grapheme of one code point.
MaxGraphemeWidth ==
  CHOOSE w \in {GraphemeWidth(g) : g \in NarrowGraphemes} :
    \A g \in NarrowGraphemes : GraphemeWidth(g) <= w

\* Every grapheme of the input has width 0, 1 or 2.
NarrowInput == \A i \in 1..Len(input) : input[i] \in NarrowGraphemes

\* The difference of two naturals.
AbsDiff(a, b) == IF a >= b THEN a - b ELSE b - a

\* C13: for an input of graphemes of width 0, 1 or 2, where the merge of
\* unicode_truncate_centered stops (the width of the input is above
\* max_width > 0), the width removed from the start and the
\* width removed from the end differ by at most the width of one grapheme;
\* when the indices found delimit a slice, these widths are the widths of
\* the input before and after the slice.
BalancedRemoval ==
  pc = "slice" /\ NarrowInput
    => /\ AbsDiff(merge.start_removed, merge.end_removed) <= MaxGraphemeWidth
       /\ Get(input, found[1], found[2]).some
            => /\ merge.start_removed =
                    StrWidth(Prefix(input, GraphemeAt(input, found[1]) - 1))
               /\ merge.end_removed =
                    StrWidth(Suffix(input, Len(input) + 1
                                             - GraphemeAt(input, found[2])))

\* C13 happens: the merge has stopped with width removed from both ends,
\* and two columns more from one end than from the other.
BalancedRemovalWitness ==
  /\ pc = "slice"
  /\ NarrowInput
  /\ merge.start_removed > 0
  /\ merge.end_removed > 0
  /\ AbsDiff(merge.start_removed, merge.end_removed) = MaxGraphemeWidth

\* The stepwise merge returns what the function returns.
CenteredStepwise ==
  pc = "done" /\ op = "truncate_centered"
    => result = UnicodeTruncateCentered(input, max_width)
====
